---- MODULE Spec2Model ----
(***************************************************************************)
(* The view CRUD service of backend/src/workspace_service/view/view.rs:     *)
(* create_view, read_view, update_view, delete_view and                     *)
(* read_views_belong_to_id, each run by a caller against one Postgres       *)
(* table (view_table) inside one sqlx transaction.                          *)
(*                                                                         *)
(* Every .await of the source is a step of its own: the call runs the       *)
(* parsers up to pool.begin(), the begin step runs the code up to the       *)
(* statement's execution, and so on up to the commit.  begin, every         *)
(* execution and commit may each fail (the database is an input).           *)
(***************************************************************************)
EXTENDS Integers, Sequences, FiniteSets, TLC

(***************************************************************************)
(* Bounds of the model.                                                    *)
(***************************************************************************)
MaxUuid == 3      \* how many distinct UUIDs exist
MaxTime == 1      \* Utc::now() reads 0..MaxTime
MaxCalls == 3     \* how many operations are invoked in one behaviour
MaxLen == 8       \* the length bound of the text parsers (in characters)
MaxFairCalls == 2 \* how many operations are invoked under SpecFair

Procs == {"c1"}                \* the callers
Uuids == 1..MaxUuid

(***************************************************************************)
(* Text.  An identifier text is a record: the UUID it spells (0 when it     *)
(* spells none) and how it is written.  Uuid::parse_str reads both cases    *)
(* of the hyphenated form; Uuid's Display writes the lower-case one.        *)
(***************************************************************************)
Lower(u) == [u |-> u, form |-> "lower"]
Upper(u) == [u |-> u, form |-> "upper"]
EmptyText == [u |-> 0, form |-> "empty"]
JunkText == [u |-> 0, form |-> "junk"]
IdTexts == {Lower(u) : u \in Uuids} \cup {Upper(u) : u \in Uuids}
              \cup {EmptyText, JunkText}

Ok(v) == [ok |-> TRUE, val |-> v]
Err(k, f) == [ok |-> FALSE, kind |-> k, field |-> f]
Some(v) == [some |-> TRUE, val |-> v]
None == [some |-> FALSE]

\* uuid::Uuid::parse_str: any case of the hyphenated form
Uuid_parse_str(s) ==
    IF s.form \in {"lower", "upper"} THEN Ok(s.u) ELSE Err("uuid", "view_id")

\* <Uuid as Display>::fmt, reached through to_string(): lower-case hyphenated
to_string(u) == Lower(u)

(***************************************************************************)
(* The constrained value parsers (flowy_workspace::entities::*::parser).    *)
(***************************************************************************)
ViewName_parse(s) ==
    IF s = "" \/ Len(s) > MaxLen THEN Err("parser", "name") ELSE Ok(s)
ViewDesc_parse(s) ==
    IF Len(s) > MaxLen THEN Err("parser", "desc") ELSE Ok(s)
ViewThumbnail_parse(s) ==
    IF Len(s) > MaxLen THEN Err("parser", "thumbnail") ELSE Ok(s)
AppId_parse(s) ==
    IF s.form \in {"lower", "upper"} THEN Ok(s) ELSE Err("parser", "belong_to_id")
ViewId_parse(s) ==
    IF s.form \in {"lower", "upper"} THEN Ok(s) ELSE Err("parser", "view_id")

\* flowy_net::errors::invalid_params, and the From<uuid::Error> the `?` of
\* check_view_id goes through
invalid_params(e) == [kind |-> "ValidationError", field |-> e.field]
from_uuid_error(e) == [kind |-> "ValidationError", field |-> e.field]

\* check_view_id that lets the parser's failure through as an internal error
check_view_id_internal(id) ==
    LET view_id == ViewId_parse(id) IN
    IF ~view_id.ok
    THEN [ok |-> FALSE, err |-> [kind |-> "InfraError", field |-> view_id.field]]
    ELSE LET uuid == Uuid_parse_str(view_id.val) IN
         IF ~uuid.ok THEN [ok |-> FALSE, err |-> from_uuid_error(uuid)]
         ELSE Ok(uuid.val)

\* lines 224-228

check_view_id(id) ==
    LET view_id == ViewId_parse(id) IN
    IF ~view_id.ok THEN [ok |-> FALSE, err |-> invalid_params(view_id)]
    ELSE LET uuid == Uuid_parse_str(view_id.val) IN
         IF ~uuid.ok THEN [ok |-> FALSE, err |-> from_uuid_error(uuid)]
         ELSE Ok(uuid.val)

(***************************************************************************)
(* The statement builder (crate::sqlx_ext::SqlBuilder).  A builder keeps    *)
(* the field/value pairs and the equality conditions in the order they were *)
(* added; build() numbers the placeholders $1, $2, ... in that order and    *)
(* returns the statement with its ordered argument list.                    *)
(***************************************************************************)
SqlBuilder(shape, tbl) ==
    [shape |-> shape, table |-> tbl, fields |-> <<>>, filters |-> <<>>,
     selected |-> <<>>]
SqlBuilder_create(tbl) == SqlBuilder("INSERT", tbl)
SqlBuilder_select(tbl) == SqlBuilder("SELECT", tbl)
SqlBuilder_update(tbl) == SqlBuilder("UPDATE", tbl)
SqlBuilder_delete(tbl) == SqlBuilder("DELETE", tbl)

add_arg(b, col, val) ==
    [b EXCEPT !.fields = Append(@, [col |-> col, val |-> val])]
add_some_arg(b, col, opt) ==
    IF opt.some THEN add_arg(b, col, opt.val) ELSE b
add_arg_if(b, add, col, val) ==
    IF add THEN add_arg(b, col, val) ELSE b
add_field(b, f) == [b EXCEPT !.selected = Append(@, f)]
and_where_eq(b, col, val) ==
    [b EXCEPT !.filters = Append(@, [col |-> col, val |-> val])]

build(b) ==
    IF b.shape \in {"INSERT", "UPDATE"} /\ b.fields = <<>>
    THEN Err("build", b.shape)
    ELSE LET n == IF b.shape \in {"INSERT", "UPDATE"} THEN Len(b.fields) ELSE 0
         IN Ok([sql |-> [shape |-> b.shape,
                         table |-> b.table,
                         selected |-> b.selected,
                         columns |-> [i \in 1..n |->
                                        [col |-> b.fields[i].col, ph |-> i]],
                         where |-> [j \in 1..Len(b.filters) |->
                                        [col |-> b.filters[j].col, ph |-> n + j]]],
                 args |-> [i \in 1..(n + Len(b.filters)) |->
                             IF i <= n THEN b.fields[i].val
                             ELSE b.filters[i - n].val]])

NoStatement == [sql |-> [shape |-> "NONE"], args |-> <<>>]

(***************************************************************************)
(* The database: view_table is a sequence of rows (a heap, in insertion     *)
(* order).  A statement runs with its arguments bound to its placeholders.  *)
(***************************************************************************)
Columns == {"id", "belong_to_id", "name", "description", "modified_time",
            "create_time", "thumbnail", "view_type", "is_trash"}
Null == [null |-> TRUE]
ColumnDefault(c) == IF c = "is_trash" THEN FALSE ELSE Null

RowMatches(row, st) ==
    \A j \in DOMAIN st.sql.where :
        row[st.sql.where[j].col] = st.args[st.sql.where[j].ph]

Assigned(st, c) == {i \in DOMAIN st.sql.columns : st.sql.columns[i].col = c}
AssignedValue(st, c) ==
    st.args[st.sql.columns[CHOOSE i \in Assigned(st, c) :
                             \A k \in Assigned(st, c) : k <= i].ph]

InsertedRow(st) ==
    [c \in Columns |->
        IF Assigned(st, c) # {} THEN AssignedValue(st, c) ELSE ColumnDefault(c)]
UpdatedRow(row, st) ==
    [c \in Columns |->
        IF Assigned(st, c) # {} THEN AssignedValue(st, c) ELSE row[c]]

\* the rows a SELECT returns, in heap order
SelectRows(tbl, st) == SelectSeq(tbl, LAMBDA row : RowMatches(row, st))

\* the table after an INSERT, UPDATE or DELETE
ExecuteOn(tbl, st) ==
    CASE st.sql.shape = "INSERT" -> Append(tbl, InsertedRow(st))
      [] st.sql.shape = "UPDATE" ->
            [i \in DOMAIN tbl |->
                IF RowMatches(tbl[i], st) THEN UpdatedRow(tbl[i], st) ELSE tbl[i]]
      [] st.sql.shape = "DELETE" ->
            SelectSeq(tbl, LAMBDA row : ~RowMatches(row, st))
      [] OTHER -> tbl

RECURSIVE ExecuteAll(_, _)
ExecuteAll(tbl, sts) ==
    IF sts = <<>> THEN tbl
    ELSE ExecuteAll(ExecuteOn(tbl, Head(sts)), Tail(sts))

(***************************************************************************)
(* The response types.                                                     *)
(***************************************************************************)
\* impl From<ViewTable> for View
ViewOfTable(row) ==
    [id |-> to_string(row.id), belong_to_id |-> row.belong_to_id,
     name |-> row.name, desc |-> row.description,
     view_type |-> row.view_type, version |-> 0, belongings |-> <<>>]

NoView == [none |-> TRUE]
NoResult == [kind |-> "none", field |-> "", view |-> NoView]
Failure(e) == [kind |-> e.kind, field |-> e.field, view |-> NoView]
ValidationError(e) == Failure(invalid_params(e))
InfraError == [kind |-> "InfraError", field |-> "", view |-> NoView]
NotFound == [kind |-> "NotFound", field |-> "", view |-> NoView]
Success == [kind |-> "Ack", field |-> "", view |-> NoView]
SuccessData(v) == [kind |-> "View", field |-> "", view |-> v]

\* crate::sqlx_ext::map_sqlx_error
map_sqlx_error(e) == IF e = "RowNotFound" THEN NotFound ELSE InfraError

(***************************************************************************)
(* The requests the callers send.                                          *)
(***************************************************************************)
LongText == "0123456789abcdef"          \* longer than any length bound here

\* the identifier texts the callers send
ParentTexts == {Lower(1), Upper(1), Lower(2)}
TargetTexts == {Lower(1), Upper(1), Lower(2)}

CreateViewParams ==
    {[name |-> "Notes", belong_to_id |-> b, thumbnail |-> "", desc |-> "",
      view_type |-> 0] : b \in ParentTexts \cup {EmptyText}}
    \cup {[name |-> n, belong_to_id |-> Lower(2), thumbnail |-> t, desc |-> d,
           view_type |-> 1] :
            n \in {"Doc", ""}, t \in {"t", LongText}, d \in {"d", LongText}}
QueryViewParams ==
    [view_id : TargetTexts \cup {EmptyText, JunkText}, read_belongings : BOOLEAN]
UpdateViewParams ==
    {[view_id |-> v, name |-> f.name, desc |-> f.desc,
      thumbnail |-> f.thumbnail, is_trash |-> f.is_trash] :
        v \in TargetTexts,
        f \in {[name |-> None, desc |-> None, thumbnail |-> None, is_trash |-> None],
               [name |-> Some("Notes v2"), desc |-> None, thumbnail |-> None,
                is_trash |-> None],
               [name |-> None, desc |-> Some("d2"), thumbnail |-> None,
                is_trash |-> Some(FALSE)],
               [name |-> Some("Notes v2"), desc |-> Some("d2"),
                thumbnail |-> Some("t2"), is_trash |-> Some(TRUE)]}}
    \cup {[view_id |-> Lower(1), name |-> f.name, desc |-> f.desc,
           thumbnail |-> f.thumbnail, is_trash |-> Some(TRUE)] :
        f \in {[name |-> Some(""), desc |-> Some("d2"), thumbnail |-> None],
               [name |-> None, desc |-> Some(LongText), thumbnail |-> Some("t2")],
               [name |-> None, desc |-> None, thumbnail |-> Some(LongText)]}}
    \cup {[view_id |-> v, name |-> Some("Notes v2"), desc |-> None,
           thumbnail |-> None, is_trash |-> None] : v \in {EmptyText, JunkText}}
DeleteViewParams == [view_id : TargetTexts \cup {EmptyText, JunkText}]

\* protobuf accessors of UpdateViewParams
has_is_trash(params) == params.is_trash.some
get_is_trash(params) == IF params.is_trash.some THEN params.is_trash.val ELSE FALSE

(***************************************************************************)
(* The state.                                                              *)
(***************************************************************************)
VARIABLES
    table,      \* the committed rows of view_table
    now,        \* what Utc::now() read last
    used,       \* the UUIDs that have occurred: returned by Uuid::new_v4()
                \* or spelled in a request
    calls,      \* how many operations were invoked
    pc,         \* per caller: where its operation stands
    req,        \* per caller: the operation and its params
    txn,        \* per caller: its transaction (state, the writes not yet
                \* committed, how many were begun, how many statements ran)
    local,      \* per caller: the locals of the operation
    result,     \* per caller: what the operation returned
    before,     \* per caller: the committed table when the operation was invoked
    created,    \* per UUID: the View create_view returned for it, until an
                \* update or a delete is committed for that UUID (then Stale)
    last_deleted \* the UUID of the delete_view that returned success last,
                \* 0 when another operation returned after it

vars == <<table, now, used, calls, pc, req, txn, local, result, before,
          created, last_deleted>>

NoRequest == [kind |-> "none"]
NoTxn == [state |-> "none", writes |-> <<>>, begun |-> 0, executed |-> 0]
NoLocal == [uuid |-> 0, time |-> 0, statement |-> NoStatement,
            table |-> Null, views |-> <<>>]
Stale == [stale |-> TRUE]

InitCallers ==
    /\ now = 0
    /\ calls = 0
    /\ pc = [p \in Procs |-> "idle"]
    /\ req = [p \in Procs |-> NoRequest]
    /\ txn = [p \in Procs |-> NoTxn]
    /\ local = [p \in Procs |-> NoLocal]
    /\ result = [p \in Procs |-> NoResult]
    /\ before = [p \in Procs |-> <<>>]
    /\ created = [u \in Uuids |-> NoView]
    /\ last_deleted = 0

Init ==
    /\ table = <<>>
    /\ used = {}
    /\ InitCallers

(***************************************************************************)
(* What the steps share.                                                   *)
(***************************************************************************)
\* pool.begin() returned a transaction
Begun(p) == [txn EXCEPT ![p] = [state |-> "open", writes |-> <<>>,
                                 begun |-> @.begun + 1, executed |-> 0]]
\* a statement ran in the caller's transaction
Ran(p) == [txn EXCEPT ![p].executed = @ + 1]
\* Dropped for a transaction whose drop sends no rollback: it stays open
Dropped_unreleased(p) == txn

\* the transaction is dropped without a commit: sqlx rolls it back
Dropped(p) == [txn EXCEPT ![p].state = IF @ = "open" THEN "rolled_back" ELSE @,
                          ![p].writes = <<>>]
\* what a statement run in the caller's transaction sees
Visible(p) == ExecuteAll(table, txn[p].writes)

\* the UUIDs the identifier texts of a request spell
Spelled(kind, params) ==
    {(IF kind = "create_view" THEN params.belong_to_id ELSE params.view_id).u}
        \ {0}

\* the operation is invoked
Invoke(p, kind, params) ==
    /\ pc[p] = "idle"
    /\ calls < MaxCalls
    /\ calls' = calls + 1
    /\ req' = [req EXCEPT ![p] = [kind |-> kind, params |-> params]]
    /\ before' = [before EXCEPT ![p] = table]
    /\ used' = used \cup Spelled(kind, params)
    /\ UNCHANGED <<table, now, txn, local, created, last_deleted>>

\* the operation returns res: an error (the transaction is dropped) or,
\* after the commit, the response
Return(p, res) ==
    /\ pc' = [pc EXCEPT ![p] = "done"]
    /\ result' = [result EXCEPT ![p] = res]

ReturnError(p, res) ==
    /\ Return(p, res)
    /\ txn' = Dropped(p)
    /\ UNCHANGED <<table, now, used, calls, req, local, before, created,
                   last_deleted>>

At(p, kind, where) == pc[p] = where /\ req[p].kind = kind

\* Committed for a store that writes back, on commit, the table as the
\* transaction saw it at its start with its own writes applied
Committed_snapshot(p) ==
    /\ table' = ExecuteAll(before[p], txn[p].writes)
    /\ txn' = [txn EXCEPT ![p].state = "committed", ![p].writes = <<>>]

\* transaction.commit() succeeded: the writes become visible
Committed(p) ==
    /\ table' = ExecuteAll(table, txn[p].writes)
    /\ txn' = [txn EXCEPT ![p].state = "committed", ![p].writes = <<>>]

(***************************************************************************)
(* create_view                                                             *)
(***************************************************************************)
\* create_view_parse with the name taken as it comes
create_view_parse_name_unchecked(params) ==
    LET belong_to_id == AppId_parse(params.belong_to_id)
        thumbnail == ViewThumbnail_parse(params.thumbnail)
        desc == ViewDesc_parse(params.desc)
    IN IF ~belong_to_id.ok THEN belong_to_id
       ELSE IF ~thumbnail.ok THEN thumbnail
       ELSE IF ~desc.ok THEN desc
       ELSE Ok([name |-> params.name, belong_to_id |-> belong_to_id.val,
                thumbnail |-> thumbnail.val, desc |-> desc.val])

\* the four parsers, in the order of the source; the first failure returns
create_view_parse(params) ==
    LET name == ViewName_parse(params.name)
        belong_to_id == AppId_parse(params.belong_to_id)
        thumbnail == ViewThumbnail_parse(params.thumbnail)
        desc == ViewDesc_parse(params.desc)
    IN IF ~name.ok THEN name
       ELSE IF ~belong_to_id.ok THEN belong_to_id
       ELSE IF ~thumbnail.ok THEN thumbnail
       ELSE IF ~desc.ok THEN desc
       ELSE Ok([name |-> name.val, belong_to_id |-> belong_to_id.val,
                thumbnail |-> thumbnail.val, desc |-> desc.val])

\* new_v4 drawing any UUID, also one that is in use
new_v4_reused == Uuids

\* Uuid::new_v4(): 122 random bits, a UUID that has not occurred before:
\* none it returned, and none a caller has spelled
new_v4 == Uuids \ used

\* Utc::now(): the wall clock, which does not run backwards but may read the
\* same instant twice
Utc_now == now..MaxTime

\* create_view_statement with the name and the description bound crosswise
create_view_statement_crossed(params, uuid, time) ==
    LET parsed == create_view_parse(params).val IN
    build(add_arg(add_arg(add_arg(add_arg(add_arg(add_arg(add_arg(add_arg(
          SqlBuilder_create("view_table"),
          "id", uuid),
          "belong_to_id", parsed.belong_to_id),
          "name", parsed.desc),
          "description", parsed.name),
          "modified_time", time),
          "create_time", time),
          "thumbnail", parsed.thumbnail),
          "view_type", params.view_type))

\* create_view_statement that binds the text of the new id to belong_to_id
create_view_statement_self_parented(params, uuid, time) ==
    LET parsed == create_view_parse(params).val IN
    build(add_arg(add_arg(add_arg(add_arg(add_arg(add_arg(add_arg(add_arg(
          SqlBuilder_create("view_table"),
          "id", uuid),
          "belong_to_id", to_string(uuid)),
          "name", parsed.name),
          "description", parsed.desc),
          "modified_time", time),
          "create_time", time),
          "thumbnail", parsed.thumbnail),
          "view_type", params.view_type))

create_view_statement(params, uuid, time) ==
    LET parsed == create_view_parse(params).val IN
    build(add_arg(add_arg(add_arg(add_arg(add_arg(add_arg(add_arg(add_arg(
          SqlBuilder_create("view_table"),
          "id", uuid),
          "belong_to_id", parsed.belong_to_id),
          "name", parsed.name),
          "description", parsed.desc),
          "modified_time", time),
          "create_time", time),
          "thumbnail", parsed.thumbnail),
          "view_type", params.view_type))

create_view_response(params, uuid) ==
    LET parsed == create_view_parse(params).val IN
    [id |-> to_string(uuid), belong_to_id |-> parsed.belong_to_id,
     name |-> parsed.name, desc |-> parsed.desc,
     view_type |-> params.view_type, version |-> 0, belongings |-> <<>>]

\* lines 26-38: the parsers, then pool.begin() is awaited
create_view(p, params) ==
    /\ Invoke(p, "create_view", params)
    /\ Uuids \ used' # {}
    /\ LET parsed == create_view_parse(params) IN
       IF parsed.ok
       THEN pc' = [pc EXCEPT ![p] = "begin"] /\ UNCHANGED result
       ELSE Return(p, ValidationError(parsed))

\* lines 35-57: begin returned; the id, the time, the INSERT is built and sent
create_view_begin(p) ==
    /\ At(p, "create_view", "begin")
    /\ \/ ReturnError(p, InfraError)
       \/ \E uuid \in new_v4, time \in Utc_now :
            LET st == create_view_statement(req[p].params, uuid, time)
            IN /\ used' = used \cup {uuid}
               /\ now' = time
               /\ local' = [local EXCEPT ![p].uuid = uuid, ![p].time = time,
                               ![p].statement = IF st.ok THEN st.val ELSE @]
               /\ IF st.ok
                  THEN /\ txn' = Begun(p)
                       /\ pc' = [pc EXCEPT ![p] = "execute"]
                       /\ UNCHANGED result
                  ELSE /\ txn' = [Begun(p) EXCEPT ![p].state = "rolled_back"]
                       /\ Return(p, Failure([kind |-> "BuildError", field |-> ""]))
               /\ UNCHANGED <<table, calls, req, before, created,
                              last_deleted>>

\* Executed with the statement run on the pool, outside the transaction
Executed_on_pool(p) ==
    /\ table' = ExecuteOn(table, local[p].statement)
    /\ txn' = Ran(p)
    /\ pc' = [pc EXCEPT ![p] = "commit"]
    /\ UNCHANGED <<now, used, calls, req, local, result, before, created,
                   last_deleted>>

\* what a successful execution of the caller's statement does
Executed(p) ==
    /\ txn' = [Ran(p) EXCEPT ![p].writes = Append(@, local[p].statement)]
    /\ pc' = [pc EXCEPT ![p] = "commit"]
    /\ UNCHANGED <<table, now, used, calls, req, local, result, before,
                   created, last_deleted>>

\* lines 54-57: the INSERT ran, or failed
create_view_execute(p) ==
    /\ At(p, "create_view", "execute")
    /\ \/ ReturnError(p, map_sqlx_error("Database"))
       \/ Executed(p)

\* lines 59-74: the commit returned
create_view_commit(p) ==
    /\ At(p, "create_view", "commit")
    /\ \/ ReturnError(p, InfraError)
       \/ LET view == create_view_response(req[p].params, local[p].uuid) IN
          /\ Committed(p)
          /\ Return(p, SuccessData(view))
          /\ created' = [created EXCEPT ![local[p].uuid] = view]
          /\ UNCHANGED <<now, used, calls, req, local, before, last_deleted>>

(***************************************************************************)
(* read_view and read_views_belong_to_id                                   *)
(***************************************************************************)
\* read_view_statement without its condition on the id
read_view_statement_unconditioned(view_id) ==
    build(add_field(SqlBuilder_select("view_table"), "*"))

read_view_statement(view_id) ==
    build(and_where_eq(add_field(SqlBuilder_select("view_table"), "*"),
                       "id", view_id))

\* read_views_belong_to_id_statement without its condition on belong_to_id
read_views_belong_to_id_statement_unconditioned(id) ==
    build(add_field(SqlBuilder_select("view_table"), "*"))

read_views_belong_to_id_statement(id) ==
    build(and_where_eq(add_field(SqlBuilder_select("view_table"), "*"),
                       "belong_to_id", id))

\* lines 216-219
views_of_tables(tables) == [i \in DOMAIN tables |-> ViewOfTable(tables[i])]

\* lines 107-108
read_view_response(tbl, views) == [ViewOfTable(tbl) EXCEPT !.belongings = views]

\* lines 77-85
read_view(p, params) ==
    /\ Invoke(p, "read_view", params)
    /\ LET view_id == check_view_id(params.view_id) IN
       IF view_id.ok
       THEN pc' = [pc EXCEPT ![p] = "begin"] /\ UNCHANGED result
       ELSE Return(p, Failure(view_id.err))

\* what the steps that only move the caller on leave alone
Advance(p, where, loc) ==
    /\ pc' = [pc EXCEPT ![p] = where]
    /\ local' = [local EXCEPT ![p] = loc]
    /\ UNCHANGED <<table, now, used, calls, req, result, before, created,
                   last_deleted>>

\* lines 82-95: begin returned; the SELECT by id is built and sent
read_view_begin(p) ==
    /\ At(p, "read_view", "begin")
    /\ \/ ReturnError(p, InfraError)
       \/ LET st == read_view_statement(check_view_id(req[p].params.view_id).val)
          IN /\ txn' = Begun(p)
             /\ Advance(p, "fetch_one", [local[p] EXCEPT !.statement = st.val])

\* sqlx's fetch_one: RowNotFound when no row comes, else the first row that
\* comes (the rest of the stream is dropped); which row comes first is the
\* server's choice
fetch_one(rows) == IF rows = <<>> THEN {} ELSE {rows[i] : i \in DOMAIN rows}

\* lines 92-100: fetch_one returned; with read_belongings the second SELECT
\* is built and sent on the same transaction
read_view_fetch_one(p) ==
    /\ At(p, "read_view", "fetch_one")
    /\ LET rows == SelectRows(Visible(p), local[p].statement) IN
       \/ ReturnError(p, map_sqlx_error("Database"))
       \/ /\ fetch_one(rows) = {}
          /\ ReturnError(p, map_sqlx_error("RowNotFound"))
       \/ \E tbl \in fetch_one(rows) :
            /\ txn' = Ran(p)
            /\ IF req[p].params.read_belongings
               THEN Advance(p, "fetch_all",
                      [local[p] EXCEPT !.table = tbl,
                         !.statement =
                            read_views_belong_to_id_statement(to_string(tbl.id)).val])
               ELSE Advance(p, "commit", [local[p] EXCEPT !.table = tbl])

\* read_views_belong_to_id that begins a transaction of its own on the pool
\* for its select and commits it
read_views_belong_to_id_own_transaction(p) ==
    /\ At(p, "read_view", "fetch_all")
    /\ \/ ReturnError(p, map_sqlx_error("Database"))
       \/ LET tables == SelectRows(table, local[p].statement) IN
          /\ txn' = [txn EXCEPT ![p].begun = @ + 1, ![p].executed = @ + 1]
          /\ Advance(p, "commit",
                     [local[p] EXCEPT !.views = views_of_tables(tables)])

\* lines 201-222, called at line 99: fetch_all returned
read_views_belong_to_id(p) ==
    /\ At(p, "read_view", "fetch_all")
    /\ \/ ReturnError(p, map_sqlx_error("Database"))
       \/ LET tables == SelectRows(Visible(p), local[p].statement) IN
          /\ txn' = Ran(p)
          /\ Advance(p, "commit",
                     [local[p] EXCEPT !.views = views_of_tables(tables)])

\* lines 102-110
read_view_commit(p) ==
    /\ At(p, "read_view", "commit")
    /\ \/ ReturnError(p, InfraError)
       \/ /\ Committed(p)
          /\ Return(p, SuccessData(read_view_response(local[p].table,
                                                      local[p].views)))
          /\ UNCHANGED <<now, used, calls, req, local, before, created,
                         last_deleted>>

(***************************************************************************)
(* update_view                                                             *)
(***************************************************************************)
\* lines 117-144: the id, then each supplied field through its parser
update_view_parse(params) ==
    LET view_id == check_view_id(params.view_id)
        name == IF params.name.some THEN ViewName_parse(params.name.val)
                ELSE Ok("")
        desc == IF params.desc.some THEN ViewDesc_parse(params.desc.val)
                ELSE Ok("")
        thumbnail == IF params.thumbnail.some
                     THEN ViewThumbnail_parse(params.thumbnail.val)
                     ELSE Ok("")
    IN IF ~view_id.ok THEN view_id
       ELSE IF ~name.ok THEN [ok |-> FALSE, err |-> invalid_params(name)]
       ELSE IF ~desc.ok THEN [ok |-> FALSE, err |-> invalid_params(desc)]
       ELSE IF ~thumbnail.ok THEN [ok |-> FALSE, err |-> invalid_params(thumbnail)]
       ELSE Ok([view_id |-> view_id.val,
                name |-> IF params.name.some THEN Some(name.val) ELSE None,
                desc |-> IF params.desc.some THEN Some(desc.val) ELSE None,
                thumbnail |-> IF params.thumbnail.some THEN Some(thumbnail.val)
                              ELSE None])

\* update_view_statement without its condition on the id
update_view_statement_unconditioned(params, time) ==
    LET parsed == update_view_parse(params).val IN
    build(add_arg_if(add_some_arg(add_some_arg(add_some_arg(
          add_some_arg(SqlBuilder_update("view_table"),
          "name", parsed.name),
          "description", parsed.desc),
          "thumbnail", parsed.thumbnail),
          "modified_time", Some(time)),
          has_is_trash(params), "is_trash", get_is_trash(params)))

\* update_view_statement that leaves modified_time out
update_view_statement_untimed(params, time) ==
    LET parsed == update_view_parse(params).val IN
    build(and_where_eq(add_arg_if(add_some_arg(add_some_arg(add_some_arg(
          SqlBuilder_update("view_table"),
          "name", parsed.name),
          "description", parsed.desc),
          "thumbnail", parsed.thumbnail),
          has_is_trash(params), "is_trash", get_is_trash(params)),
          "id", parsed.view_id))

\* update_view_statement that takes is_trash for a plain optional value: the
\* column is sent when the value is true
update_view_statement_collapsed(params, time) ==
    LET parsed == update_view_parse(params).val IN
    build(and_where_eq(add_arg_if(add_some_arg(add_some_arg(add_some_arg(
          add_some_arg(SqlBuilder_update("view_table"),
          "name", parsed.name),
          "description", parsed.desc),
          "thumbnail", parsed.thumbnail),
          "modified_time", Some(time)),
          get_is_trash(params), "is_trash", get_is_trash(params)),
          "id", parsed.view_id))

\* update_view_statement that adds modified_time ahead of the optional fields
update_view_statement_reordered(params, time) ==
    LET parsed == update_view_parse(params).val IN
    build(and_where_eq(add_arg_if(add_some_arg(add_some_arg(add_some_arg(
          add_some_arg(SqlBuilder_update("view_table"),
          "modified_time", Some(time)),
          "name", parsed.name),
          "description", parsed.desc),
          "thumbnail", parsed.thumbnail),
          has_is_trash(params), "is_trash", get_is_trash(params)),
          "id", parsed.view_id))

\* lines 151-158
update_view_statement(params, time) ==
    LET parsed == update_view_parse(params).val IN
    build(and_where_eq(add_arg_if(add_some_arg(add_some_arg(add_some_arg(
          add_some_arg(SqlBuilder_update("view_table"),
          "name", parsed.name),
          "description", parsed.desc),
          "thumbnail", parsed.thumbnail),
          "modified_time", Some(time)),
          has_is_trash(params), "is_trash", get_is_trash(params)),
          "id", parsed.view_id))

\* lines 113-149
update_view(p, params) ==
    /\ Invoke(p, "update_view", params)
    /\ LET parsed == update_view_parse(params) IN
       IF parsed.ok
       THEN pc' = [pc EXCEPT ![p] = "begin"] /\ UNCHANGED result
       ELSE Return(p, Failure(parsed.err))

\* lines 146-163: begin returned; the clock is read, the UPDATE built and sent
update_view_begin(p) ==
    /\ At(p, "update_view", "begin")
    /\ \/ ReturnError(p, InfraError)
       \/ \E time \in Utc_now :
          LET st == update_view_statement(req[p].params, time)
          IN /\ now' = time
             /\ local' = [local EXCEPT ![p].time = time,
                             ![p].statement = IF st.ok THEN st.val ELSE @]
             /\ IF st.ok
                THEN /\ txn' = Begun(p)
                     /\ pc' = [pc EXCEPT ![p] = "execute"]
                     /\ UNCHANGED result
                ELSE /\ txn' = [Begun(p) EXCEPT ![p].state = "rolled_back"]
                     /\ Return(p, Failure([kind |-> "BuildError", field |-> ""]))
             /\ UNCHANGED <<table, used, calls, req, before, created,
                            last_deleted>>

\* update_view_execute that takes zero affected rows for a failure
update_view_execute_checked(p) ==
    /\ At(p, "update_view", "execute")
    /\ \/ ReturnError(p, map_sqlx_error("Database"))
       \/ /\ SelectRows(Visible(p), local[p].statement) = <<>>
          /\ ReturnError(p, map_sqlx_error("RowNotFound"))
       \/ /\ SelectRows(Visible(p), local[p].statement) # <<>>
          /\ Executed(p)

\* lines 160-163
update_view_execute(p) ==
    /\ At(p, "update_view", "execute")
    /\ \/ ReturnError(p, map_sqlx_error("Database"))
       \/ Executed(p)

\* the UUID the operation of caller p is about (0: none)
Target(p) ==
    IF req[p].kind = "create_view" THEN local[p].uuid
    ELSE IF req[p].kind = "none" THEN 0
    ELSE LET view_id == check_view_id(req[p].params.view_id) IN
         IF view_id.ok THEN view_id.val ELSE 0

\* an update or a delete was committed for uuid
Touched(uuid) ==
    [u \in Uuids |-> IF u = uuid /\ created[u] # NoView THEN Stale
                     ELSE created[u]]

\* lines 165-170
update_view_commit(p) ==
    /\ At(p, "update_view", "commit")
    /\ \/ ReturnError(p, InfraError)
       \/ /\ Committed(p)
          /\ Return(p, Success)
          /\ created' = Touched(Target(p))
          /\ UNCHANGED <<now, used, calls, req, local, before, last_deleted>>

(***************************************************************************)
(* delete_view                                                             *)
(***************************************************************************)
\* delete_view_statement without its condition on the id
delete_view_statement_unconditioned(view_id) ==
    build(SqlBuilder_delete("view_table"))

\* lines 183-185
delete_view_statement(view_id) ==
    build(and_where_eq(SqlBuilder_delete("view_table"), "id", view_id))

\* lines 173-181
delete_view(p, view_id_text) ==
    /\ Invoke(p, "delete_view", [view_id |-> view_id_text])
    /\ LET view_id == check_view_id(view_id_text) IN
       IF view_id.ok
       THEN pc' = [pc EXCEPT ![p] = "begin"] /\ UNCHANGED result
       ELSE Return(p, Failure(view_id.err))

\* lines 178-190: begin returned; the DELETE is built and sent
delete_view_begin(p) ==
    /\ At(p, "delete_view", "begin")
    /\ \/ ReturnError(p, InfraError)
       \/ LET st == delete_view_statement(check_view_id(req[p].params.view_id).val)
          IN /\ txn' = Begun(p)
             /\ Advance(p, "execute", [local[p] EXCEPT !.statement = st.val])

\* delete_view_execute that takes zero affected rows for a failure
delete_view_execute_checked(p) ==
    /\ At(p, "delete_view", "execute")
    /\ \/ ReturnError(p, map_sqlx_error("Database"))
       \/ /\ SelectRows(Visible(p), local[p].statement) = <<>>
          /\ ReturnError(p, map_sqlx_error("RowNotFound"))
       \/ /\ SelectRows(Visible(p), local[p].statement) # <<>>
          /\ Executed(p)

\* lines 187-190
delete_view_execute(p) ==
    /\ At(p, "delete_view", "execute")
    /\ \/ ReturnError(p, map_sqlx_error("Database"))
       \/ Executed(p)

\* delete_view_commit that does not look at what the commit returned
delete_view_commit_unchecked(p) ==
    /\ At(p, "delete_view", "commit")
    /\ \/ /\ Return(p, Success)
          /\ txn' = Dropped(p)
          /\ UNCHANGED <<table, now, used, calls, req, local, before, created,
                         last_deleted>>
       \/ /\ Committed(p)
          /\ Return(p, Success)
          /\ created' = Touched(Target(p))
          /\ UNCHANGED <<now, used, calls, req, local, before, last_deleted>>

\* lines 192-197
delete_view_commit(p) ==
    /\ At(p, "delete_view", "commit")
    /\ \/ ReturnError(p, InfraError)
       \/ /\ Committed(p)
          /\ Return(p, Success)
          /\ created' = Touched(Target(p))
          /\ UNCHANGED <<now, used, calls, req, local, before, last_deleted>>

(***************************************************************************)
(* The environment: the caller takes the response.                         *)
(***************************************************************************)
respond(p) ==
    /\ pc[p] = "done"
    /\ last_deleted' = IF req[p].kind = "delete_view" /\ result[p] = Success
                       THEN Target(p) ELSE 0
    /\ pc' = [pc EXCEPT ![p] = "idle"]
    /\ req' = [req EXCEPT ![p] = NoRequest]
    /\ txn' = [txn EXCEPT ![p] = NoTxn]
    /\ local' = [local EXCEPT ![p] = NoLocal]
    /\ result' = [result EXCEPT ![p] = NoResult]
    /\ before' = [before EXCEPT ![p] = <<>>]
    /\ UNCHANGED <<table, now, used, calls, created>>

AllIdle == \A q \in Procs : pc[q] = "idle"

Call(p) ==
    \/ \E params \in CreateViewParams : create_view(p, params)
    \/ \E params \in QueryViewParams : read_view(p, params)
    \/ \E params \in UpdateViewParams : update_view(p, params)
    \/ \E params \in DeleteViewParams : delete_view(p, params.view_id)

Step(p) ==
    \/ create_view_begin(p) \/ create_view_execute(p) \/ create_view_commit(p)
    \/ read_view_begin(p) \/ read_view_fetch_one(p)
    \/ read_views_belong_to_id(p) \/ read_view_commit(p)
    \/ update_view_begin(p) \/ update_view_execute(p) \/ update_view_commit(p)
    \/ delete_view_begin(p) \/ delete_view_execute(p) \/ delete_view_commit(p)
    \/ respond(p)

\* one operation at a time: a caller invokes only when no operation is running
Next ==
    \/ \E p \in Procs : AllIdle /\ Call(p)
    \/ \E p \in Procs : Step(p)

Spec == Init /\ [][Next]_vars

(***************************************************************************)
(* The same program started on a table whose uniqueness of id is broken:    *)
(* two rows carry UUID 1 (nothing in the source declares the column         *)
(* unique, and the table is written by the database's other clients too).   *)
(***************************************************************************)
CorruptTable ==
    << [id |-> 1, belong_to_id |-> Lower(2), name |-> "Notes",
        description |-> "", modified_time |-> 0, create_time |-> 0,
        thumbnail |-> "", view_type |-> 0, is_trash |-> FALSE],
       [id |-> 1, belong_to_id |-> Lower(2), name |-> "Doc",
        description |-> "d", modified_time |-> 0, create_time |-> 0,
        thumbnail |-> "t", view_type |-> 1, is_trash |-> FALSE] >>

InitCorrupt ==
    /\ table = CorruptTable
    /\ used = {1}
    /\ InitCallers

SpecCorrupt == InitCorrupt /\ [][Next]_vars

(***************************************************************************)
(* The service with the scheduling of its executor: an operation that can   *)
(* resume from an .await does resume (pool.begin(), every statement and     *)
(* the commit each complete, with a result or with an error), and a         *)
(* response that is ready is taken.                                        *)
(***************************************************************************)
Fairness == \A p \in Procs : WF_vars(Step(p))

NextFair ==
    \/ \E p \in Procs : AllIdle /\ calls < MaxFairCalls /\ Call(p)
    \/ \E p \in Procs : Step(p)

SpecFair == Init /\ [][NextFair]_vars /\ Fairness

(***************************************************************************)
(* update_view alone, sent every combination of present and absent          *)
(* optional fields, on a table that holds the row of one created view.      *)
(***************************************************************************)
AllUpdateViewParams ==
    [view_id : {Lower(1), Lower(2)},
     name : {None, Some("Notes v2")},
     desc : {None, Some("d2")},
     thumbnail : {None, Some("t2")},
     is_trash : {None, Some(FALSE), Some(TRUE)}]

CreatedTable ==
    << [id |-> 1, belong_to_id |-> Lower(2), name |-> "Notes",
        description |-> "", modified_time |-> 0, create_time |-> 0,
        thumbnail |-> "", view_type |-> 0, is_trash |-> FALSE] >>

InitUpdates ==
    /\ table = CreatedTable
    /\ used = {1, 2}
    /\ InitCallers

NextUpdates ==
    \/ \E p \in Procs : \E params \in AllUpdateViewParams :
          AllIdle /\ update_view(p, params)
    \/ \E p \in Procs : update_view_begin(p)
    \/ \E p \in Procs : update_view_execute(p)
    \/ \E p \in Procs : update_view_commit(p)
    \/ \E p \in Procs : respond(p)

SpecUpdates == InitUpdates /\ [][NextUpdates]_vars

(***************************************************************************)
(* Two callers at once.  Each invokes one operation while the other's is     *)
(* not yet committed, on a table that holds a view or a view and a child    *)
(* of it, and their steps interleave freely.  The operations target         *)
(* different ids, so no statement waits for a row the other transaction     *)
(* has written; each statement sees the committed rows and its own          *)
(* transaction's writes (READ COMMITTED, the default of Postgres).          *)
(***************************************************************************)
Both == {"c1", "c2"}

ParentTable ==
    << [id |-> 1, belong_to_id |-> Lower(3), name |-> "Notes",
        description |-> "", modified_time |-> 0, create_time |-> 0,
        thumbnail |-> "", view_type |-> 0, is_trash |-> FALSE] >>
ParentAndChildTable ==
    Append(ParentTable,
       [id |-> 2, belong_to_id |-> Lower(1), name |-> "Doc",
        description |-> "d", modified_time |-> 0, create_time |-> 0,
        thumbnail |-> "t", view_type |-> 1, is_trash |-> FALSE])

InitPair ==
    /\ \/ table = ParentTable /\ used = {1, 3}
       \/ table = ParentAndChildTable /\ used = {1, 2, 3}
    /\ now = 0
    /\ calls = 0
    /\ pc = [p \in Both |-> "idle"]
    /\ req = [p \in Both |-> NoRequest]
    /\ txn = [p \in Both |-> NoTxn]
    /\ local = [p \in Both |-> NoLocal]
    /\ result = [p \in Both |-> NoResult]
    /\ before = [p \in Both |-> <<>>]
    /\ created = [u \in Uuids |-> NoView]
    /\ last_deleted = 0

\* the two operations target different ids: the id a read, an update or a
\* delete names is not the one the other names, nor the one the other, a
\* create_view, has drawn
DifferentTargets ==
    \A p, q \in Both :
        (p # q /\ Target(p) # 0) => Target(p) # Target(q)

\* a caller invokes its operation: nothing is committed yet
CallPair(p) ==
    /\ \A q \in Both : txn[q].state # "committed"
    /\ Call(p)
    /\ DifferentTargets'

StepPair(p) ==
    \/ create_view_begin(p) \/ create_view_execute(p) \/ create_view_commit(p)
    \/ read_view_begin(p) \/ read_view_fetch_one(p)
    \/ read_views_belong_to_id(p) \/ read_view_commit(p)
    \/ update_view_begin(p) \/ update_view_execute(p) \/ update_view_commit(p)
    \/ delete_view_begin(p) \/ delete_view_execute(p) \/ delete_view_commit(p)

NextPair ==
    \/ \E p \in Both : CallPair(p)
    \/ \E p \in Both : StepPair(p)

SpecPair == InitPair /\ [][NextPair]_vars

(***************************************************************************)
(* The properties.                                                         *)
(***************************************************************************)
Done(p) == pc[p] = "done"
Is(p, kind) == req[p].kind = kind
RowsOf(tbl, uuid) == SelectSeq(tbl, LAMBDA row : row.id = uuid)

\* a request one of whose inputs fails its parser
FailsParser(r) ==
    CASE r.kind = "create_view" ->
            \/ ~ViewName_parse(r.params.name).ok
            \/ ~AppId_parse(r.params.belong_to_id).ok
            \/ ~ViewThumbnail_parse(r.params.thumbnail).ok
            \/ ~ViewDesc_parse(r.params.desc).ok
      [] r.kind = "update_view" ->
            \/ ~check_view_id(r.params.view_id).ok
            \/ r.params.name.some /\ ~ViewName_parse(r.params.name.val).ok
            \/ r.params.desc.some /\ ~ViewDesc_parse(r.params.desc.val).ok
            \/ r.params.thumbnail.some
                 /\ ~ViewThumbnail_parse(r.params.thumbnail.val).ok
      [] r.kind \in {"read_view", "delete_view"} ->
            ~check_view_id(r.params.view_id).ok
      [] OTHER -> FALSE

\* C1: an operation one of whose inputs fails its parser has returned a
\* validation error, has begun no transaction, and the committed table is
\* what it was when the operation was invoked.
C1_ValidationBeforeTransaction ==
    \A p \in Procs :
        FailsParser(req[p]) =>
            /\ Done(p)
            /\ result[p].kind = "ValidationError"
            /\ txn[p] = NoTxn
            /\ table = before[p]

\* CreateView with an empty name was refused on a table that holds a row.
C1_Witness ==
    \E p \in Procs :
        /\ Done(p) /\ Is(p, "create_view") /\ req[p].params.name = ""
        /\ result[p].kind = "ValidationError" /\ result[p].field = "name"
        /\ Len(table) = 1

\* C2: from the moment its transaction is begun until its commit succeeds an
\* operation leaves the committed table as it was when it was invoked, and an
\* operation that fails after the begin returns an error with its transaction
\* rolled back and the table unchanged.
C2_FailureAborts ==
    \A p \in Procs :
        /\ pc[p] \notin {"idle", "done"} => table = before[p]
        /\ (Done(p) /\ txn[p].begun > 0 /\ result[p].kind \notin {"View", "Ack"}) =>
              /\ result[p].kind \in {"InfraError", "NotFound", "BuildError"}
              /\ txn[p].state = "rolled_back"
              /\ txn[p].writes = <<>>
              /\ table = before[p]

\* The commit of an UPDATE that matched a row failed after the statement ran.
C2_Witness ==
    \E p \in Procs :
        /\ Done(p) /\ Is(p, "update_view") /\ result[p] = InfraError
        /\ txn[p].state = "rolled_back" /\ txn[p].executed = 1
        /\ RowsOf(before[p], Target(p)) # <<>>
        /\ req[p].params.name.some

\* C3: read_view by an id create_view returned, with no update or delete
\* committed for it since, never answers NotFound or ValidationError, and the
\* View it returns equals the View create_view returned in every field but
\* belongings.
C3_CreateReadRoundTrip ==
    \A p \in Procs :
        (Done(p) /\ Is(p, "read_view") /\ Target(p) # 0
           /\ created[Target(p)] \notin {NoView, Stale}) =>
            /\ result[p].kind \in {"View", "InfraError"}
            /\ result[p].kind = "View" =>
                 [result[p].view EXCEPT !.belongings = <<>>] = created[Target(p)]

\* A view created with a description is read back by the upper-case text of
\* its id.
C3_Witness ==
    \E p \in Procs :
        /\ Done(p) /\ Is(p, "read_view") /\ result[p].kind = "View"
        /\ created[Target(p)] \notin {NoView, Stale}
        /\ result[p].view.desc = "d" /\ result[p].view.name = "Doc"
        /\ req[p].params.view_id.form = "upper"

RowsUnique ==
    \A i, j \in DOMAIN table : i # j => table[i].id # table[j].id
Issued == {to_string(u) : u \in {v \in Uuids : created[v] # NoView}}

\* C4: no step leaves two rows of the table with one id, and the id of the
\* View a create_view returns is none that an earlier create_view returned.
C4_IdsUnique ==
    [][/\ RowsUnique'
       /\ \A p \in Procs :
            (At(p, "create_view", "commit") /\ result'[p].kind = "View") =>
                result'[p].view.id \notin Issued]_vars

\* A view was created, then deleted, then another view was created.
C4_Witness ==
    \E p \in Procs :
        /\ Done(p) /\ Is(p, "create_view") /\ result[p].kind = "View"
        /\ \E u \in Uuids : created[u] = Stale /\ RowsOf(table, u) = <<>>
        /\ Len(table) = 1

\* an update that returned success for an id a row carried
Updated(p) ==
    /\ Done(p) /\ Is(p, "update_view") /\ result[p] = Success
    /\ RowsOf(before[p], Target(p)) # <<>>

Supplied(opt, old) == IF opt.some THEN opt.val ELSE old

C6_StrictlyIncreases ==
    \A p \in Procs :
        Updated(p) =>
            \A i \in DOMAIN table :
                before[p][i].id = Target(p) =>
                    table[i].modified_time > before[p][i].modified_time

\* C6 as amended: every successful update_view of an existing view sets its
\* modified_time to the instant the update read from the clock, which is not
\* before the stored one and can be the stored one.
C6_SetToClockReading ==
    \A p \in Procs :
        Updated(p) =>
            \A i \in DOMAIN table :
                before[p][i].id = Target(p) =>
                    /\ table[i].modified_time = local[p].time
                    /\ table[i].modified_time >= before[p][i].modified_time

\* An update that supplied no field moved modified_time forward.
C6_Witness ==
    \E p \in Procs :
        /\ Updated(p)
        /\ ~req[p].params.name.some /\ ~req[p].params.desc.some
        /\ ~req[p].params.thumbnail.some /\ ~req[p].params.is_trash.some
        /\ \E i \in DOMAIN table :
              /\ before[p][i].id = Target(p)
              /\ table[i].modified_time > before[p][i].modified_time

\* C7: delete_view of a well-formed id never answers NotFound or a
\* validation error; on success the table is the table at invocation without
\* the rows of that id, so it is unchanged when no row carried the id; and a
\* delete_view that follows a successful delete_view of the same id leaves
\* the table as it found it.
C7_DeleteIdempotent ==
    \A p \in Procs :
        (Done(p) /\ Is(p, "delete_view") /\ Target(p) # 0) =>
            /\ result[p].kind \in {"Ack", "InfraError"}
            /\ result[p] = Success =>
                 table = SelectSeq(before[p], LAMBDA row : row.id # Target(p))
            /\ (result[p] = Success /\ RowsOf(before[p], Target(p)) = <<>>) =>
                 table = before[p]
            /\ last_deleted = Target(p) => table = before[p]

\* A created view was deleted, and the delete repeated at once with success.
C7_Witness ==
    \E p \in Procs :
        /\ Done(p) /\ Is(p, "delete_view") /\ result[p] = Success
        /\ last_deleted = Target(p)
        /\ created[Target(p)] = Stale

BelongingTo(tbl, text) == SelectSeq(tbl, LAMBDA row : row.belong_to_id = text)

\* a read with read_belongings that returned a View
ReadWithBelongings(p) ==
    /\ Done(p) /\ Is(p, "read_view") /\ req[p].params.read_belongings
    /\ result[p].kind = "View"

C9_ReadNotFound ==
    \A p \in Procs :
        (Done(p) /\ Is(p, "read_view")) =>
            /\ (Target(p) # 0 /\ RowsOf(before[p], Target(p)) = <<>>) =>
                  /\ result[p].kind \in {"NotFound", "InfraError"}
                  /\ table = before[p]
            /\ result[p].kind = "NotFound" =>
                  /\ Target(p) # 0
                  /\ RowsOf(before[p], Target(p)) = <<>>
                  /\ txn[p].begun = 1 /\ txn[p].state = "rolled_back"

\* A read of an id that no row of a non-empty table carries answered NotFound.
C9_Witness ==
    \E p \in Procs :
        /\ Done(p) /\ Is(p, "read_view") /\ result[p] = NotFound
        /\ Len(table) > 0

\* C10 as claimed: a read_view whose select by id matches more than one row
\* fails with InfraError and returns no View.
C10_ManyRowsIsFatal ==
    \A p \in Procs :
        (Done(p) /\ Is(p, "read_view") /\ Target(p) # 0
           /\ Len(RowsOf(before[p], Target(p))) > 1) =>
            result[p].kind = "InfraError"

\* the text of the identifier a read, an update or a delete was sent
SentViewId(p) == req[p].params.view_id

BuiltUpdate(p) ==
    Is(p, "update_view") /\ local[p].statement # NoStatement

\* the columns a statement assigns, in order
SetColumns(st) == [i \in DOMAIN st.sql.columns |-> st.sql.columns[i].col]

\* C12: an update_view that carries is_trash sends the column is_trash with
\* exactly the carried value, and after its success the stored is_trash of the
\* row is that value (false over a stored true included); an update_view that
\* does not carry is_trash sends no is_trash column and no argument beyond
\* those of its other columns and of the id condition, and after its success
\* the stored is_trash is what it was.
C12_IsTrashPresence ==
    \A p \in Procs :
        LET params == req[p].params
            st == local[p].statement
        IN /\ BuiltUpdate(p) =>
                IF has_is_trash(params)
                THEN /\ Cardinality(Assigned(st, "is_trash")) = 1
                     /\ AssignedValue(st, "is_trash") = params.is_trash.val
                ELSE /\ Assigned(st, "is_trash") = {}
                     /\ Len(st.args) = Len(SetColumns(st)) + 1
           /\ Updated(p) =>
                \A i \in DOMAIN table :
                    before[p][i].id = Target(p) =>
                        table[i].is_trash =
                            IF has_is_trash(params) THEN params.is_trash.val
                            ELSE before[p][i].is_trash

\* An update that carries is_trash = false succeeded on a row stored as trash.
C12_Witness ==
    \E p \in Procs :
        /\ Updated(p)
        /\ req[p].params.is_trash = Some(FALSE)
        /\ \E i \in DOMAIN table :
              /\ before[p][i].id = Target(p)
              /\ before[p][i].is_trash = TRUE
              /\ table[i].is_trash = FALSE

\* the fields update_view offers the builder, in the order of its calls, each
\* with the optional value it passes
OfferedFields(p) ==
    LET params == req[p].params IN
    << [col |-> "name", opt |-> params.name],
       [col |-> "description", opt |-> params.desc],
       [col |-> "thumbnail", opt |-> params.thumbnail],
       [col |-> "modified_time", opt |-> Some(local[p].time)],
       [col |-> "is_trash", opt |-> params.is_trash],
       [col |-> "id", opt |-> Some(Target(p))] >>

\* those of them that carry a value
IncludedFields(p) == SelectSeq(OfferedFields(p), LAMBDA f : f.opt.some)

\* the placeholders of a statement: those of its SET list, then those of its
\* WHERE conditions
Placeholders(st) == st.sql.columns \o st.sql.where

\* C13: whichever of name, description, thumbnail and is_trash an update_view
\* carries, its UPDATE has as many placeholders as arguments, one for each
\* included field and one for the id condition; the k-th placeholder is $k,
\* stands for the k-th included field in the order update_view added them, and
\* the k-th argument is that field's value.
C13_PlaceholdersMatchArguments ==
    \A p \in Procs :
        BuiltUpdate(p) =>
            LET st == local[p].statement
                phs == Placeholders(st)
                inc == IncludedFields(p)
            IN /\ Len(phs) = Len(st.args)
               /\ Len(phs) = Len(inc)
               /\ Len(st.sql.where) = 1
               /\ \A k \in DOMAIN phs :
                     /\ phs[k].ph = k
                     /\ phs[k].col = inc[k].col
                     /\ st.args[k] = inc[k].opt.val

\* An update that carries description and is_trash but neither name nor
\* thumbnail was built: description is $1, modified_time $2, is_trash $3 and
\* the id $4.
C13_Witness ==
    \E p \in Procs :
        /\ BuiltUpdate(p)
        /\ ~req[p].params.name.some /\ req[p].params.desc.some
        /\ ~req[p].params.thumbnail.some /\ req[p].params.is_trash.some
        /\ Len(local[p].statement.args) = 4
        /\ local[p].statement.sql.where[1].ph = 4

\* how many statements the operation of caller p sends
Statements(p) ==
    IF Is(p, "read_view") /\ req[p].params.read_belongings THEN 2 ELSE 1

Succeeded(p) == Done(p) /\ result[p].kind \in {"View", "Ack"}

\* C15: an operation awaits its commit only with its transaction open and
\* every one of its statements run; it has returned View or Ack only with
\* every statement run and the transaction committed; an operation whose
\* transaction was rolled back has returned an error.
C15_CommitThenSuccess ==
    \A p \in Procs :
        /\ pc[p] = "commit" =>
              /\ txn[p].state = "open"
              /\ txn[p].executed = Statements(p)
        /\ Succeeded(p) =>
              /\ txn[p].state = "committed"
              /\ txn[p].executed = Statements(p)
        /\ (Done(p) /\ txn[p].state = "rolled_back") =>
              result[p].kind \in {"InfraError", "NotFound", "BuildError"}
        /\ txn[p].executed > 0 => txn[p].state # "none"

\* A read with read_belongings returned a View after its two selects and its
\* commit.
C15_Witness ==
    \E p \in Procs :
        /\ Succeeded(p) /\ Is(p, "read_view") /\ req[p].params.read_belongings
        /\ txn[p].executed = 2 /\ txn[p].state = "committed"
        /\ Len(table) > 0

\* the operation of caller p is between pool.begin() and the return of
\* its commit
InTransaction(p) == pc[p] \in {"execute", "fetch_one", "fetch_all", "commit"}

\* C17 as claimed: every invocation begins exactly one transaction.
C17_ExactlyOneTransaction ==
    \A p \in Procs : Done(p) => txn[p].begun = 1

\* C17 as amended: an invocation begins at most one transaction: none when an
\* input fails validation or pool.begin() fails, one otherwise; every
\* statement it sends, the select by belong_to_id of read_views_belong_to_id
\* after the select by id included, runs in that one transaction, which is
\* open from the begin until the commit of the operation returns.
C17_OneSharedTransaction ==
    \A p \in Procs :
        /\ txn[p].begun <= 1
        /\ InTransaction(p) => txn[p].begun = 1 /\ txn[p].state = "open"
        /\ Done(p) =>
              /\ result[p].kind = "ValidationError" => txn[p].begun = 0
              /\ result[p].kind \in {"View", "Ack", "NotFound"} => txn[p].begun = 1
              /\ txn[p].begun = 0 => result[p].kind \in {"ValidationError", "InfraError"}
        /\ pc[p] = "fetch_all" => txn[p].executed = 1
        /\ (pc[p] = "commit" /\ Is(p, "read_view")
              /\ req[p].params.read_belongings) => txn[p].executed = 2

\* read_views_belong_to_id has returned the children of a view to read_view,
\* whose transaction is still open for the commit.
C17_Witness ==
    \E p \in Procs :
        /\ pc[p] = "commit" /\ Is(p, "read_view") /\ req[p].params.read_belongings
        /\ txn[p].begun = 1 /\ txn[p].executed = 2 /\ txn[p].state = "open"
        /\ Len(local[p].views) = 1

\* the row names itself as its parent: its belong_to_id is a text of its id
SelfParented(row) == Uuid_parse_str(row.belong_to_id).val = row.id

\* C18: no row of the table, committed or written in a transaction still
\* open, has a belong_to_id that spells its own id.
C18_NoSelfParenting ==
    /\ \A i \in DOMAIN table : ~SelfParented(table[i])
    /\ \A p \in Procs :
          \A i \in DOMAIN Visible(p) : ~SelfParented(Visible(p)[i])

\* The table holds a view and a child of it, created with the parent's id as
\* its belong_to_id, after an update of the parent.
C18_Witness ==
    \E p \in Procs :
        /\ Updated(p)
        /\ \E i, j \in DOMAIN table :
              /\ Uuid_parse_str(table[j].belong_to_id).val = table[i].id
              /\ table[i].id = Target(p)

\* an update_view whose inputs are valid and whose id no row carried when it
\* was invoked has returned
UpdatedNothing(p) ==
    /\ Done(p) /\ Is(p, "update_view")
    /\ update_view_parse(req[p].params).ok
    /\ RowsOf(before[p], Target(p)) = <<>>

\* C19: an update_view with valid inputs whose id matches no row returns Ack
\* once its transaction is committed (InfraError when the database fails
\* before that), never NotFound or a validation error, and the table is as it
\* was: no row is created and none is changed.
C19_UpdateOfMissingIsAck ==
    \A p \in Procs :
        UpdatedNothing(p) =>
            /\ result[p].kind \in {"Ack", "InfraError"}
            /\ result[p].kind = "Ack" <=> txn[p].state = "committed"
            /\ table = before[p]

\* An update of an id that no row of a non-empty table carries returned Ack.
C19_Witness ==
    \E p \in Procs :
        /\ UpdatedNothing(p) /\ result[p] = Success
        /\ req[p].params.name.some
        /\ Len(table) > 0

\* a delete_view has returned Ack
Deleted(p) == Done(p) /\ Is(p, "delete_view") /\ result[p] = Success

\* C20: after a successful delete_view(id) the table is the table as it was
\* without the rows whose id is the given one, trashed or not: every other
\* row, the rows whose belong_to_id spells the deleted id included, is there
\* unchanged and in its place.
C20_DeleteFrame ==
    \A p \in Procs :
        Deleted(p) =>
            table = SelectSeq(before[p], LAMBDA row : row.id # Target(p))

\* A view was deleted and its child is still in the table.
C20_Witness ==
    \E p \in Procs :
        /\ Deleted(p)
        /\ Len(before[p]) = 2 /\ Len(table) = 1
        /\ table[1].belong_to_id = to_string(Target(p))

\* the transaction of caller p is released: committed or rolled back, with
\* no write pending (or none was begun)
Released(p) ==
    /\ txn[p].writes = <<>>
    /\ IF txn[p].begun = 0 THEN txn[p].state = "none"
       ELSE txn[p].state \in {"committed", "rolled_back"}

\* C16: an operation that was invoked returns, and when it has returned the
\* transaction it began is committed or rolled back: none is open.
C16_ReturnsAndReleases ==
    /\ [](\A p \in Procs : Done(p) => Released(p))
    /\ \A p \in Procs : (pc[p] # "idle") ~> Done(p)

\* A delete whose commit failed has returned with its transaction rolled back.
C16_Witness ==
    \E p \in Procs :
        /\ Done(p) /\ Is(p, "delete_view") /\ result[p] = InfraError
        /\ txn[p].begun = 1 /\ txn[p].executed = 1
        /\ txn[p].state = "rolled_back"
        /\ Len(table) > 0

\* The operation of caller p run alone on the table tbl, with the inputs it
\* had: its request, the id and the time it drew, and whether the database
\* failed it.  SeqTable is the table it leaves, SeqResult what it returns.
Write(p) ==
    CASE Is(p, "create_view") ->
            create_view_statement(req[p].params, local[p].uuid, local[p].time).val
      [] Is(p, "update_view") ->
            update_view_statement(req[p].params, local[p].time).val
      [] Is(p, "delete_view") -> delete_view_statement(Target(p)).val
      [] OTHER -> NoStatement

SeqTable(p, tbl) ==
    IF txn[p].state = "committed" THEN ExecuteOn(tbl, Write(p)) ELSE tbl

SeqRead(p, tbl) ==
    LET rows == SelectRows(tbl, read_view_statement(Target(p)).val) IN
    IF rows = <<>> THEN NotFound
    ELSE SuccessData(read_view_response(rows[1],
            IF req[p].params.read_belongings
            THEN views_of_tables(SelectRows(tbl,
                    read_views_belong_to_id_statement(to_string(rows[1].id)).val))
            ELSE <<>>))

SeqResult(p, tbl) ==
    IF result[p].kind \in {"ValidationError", "InfraError", "BuildError"}
    THEN result[p]
    ELSE CASE Is(p, "create_view") ->
                 SuccessData(create_view_response(req[p].params, local[p].uuid))
           [] Is(p, "read_view") -> SeqRead(p, tbl)
           [] OTHER -> Success

Rival(p) == CHOOSE q \in Both : q # p

\* both operations have returned; T0 is the table both were invoked on
BothDone == \A p \in Both : Done(p)
T0 == before["c1"]

\* a result without the belongings of its View
WithoutBelongings(res) ==
    IF res.kind = "View" THEN [res EXCEPT !.view.belongings = <<>>] ELSE res

\* two tables hold the same rows (the place of a row in the heap is not part
\* of the table's content)
SameRows(t1, t2) ==
    /\ Len(t1) = Len(t2)
    /\ {t1[i] : i \in DOMAIN t1} = {t2[i] : i \in DOMAIN t2}

\* the final table is what the two operations leave when run one after the
\* other, in either order
SameTable ==
    /\ SameRows(table, SeqTable("c2", SeqTable("c1", T0)))
    /\ SameRows(table, SeqTable("c1", SeqTable("c2", T0)))

\* C14 as claimed: two concurrent operations on different ids each return
\* what they return, and leave the table they leave, when run one after the
\* other in either order.
C14_NoInterference ==
    BothDone =>
        /\ SameTable
        /\ \A p \in Both :
              /\ result[p] = SeqResult(p, T0)
              /\ result[p] = SeqResult(p, SeqTable(Rival(p), T0))

\* C14 as amended: two concurrent operations on different ids leave the table
\* they leave when run one after the other in either order, and each returns
\* what it returns in either order but for the belongings of a read_view with
\* read_belongings, which are those of one of the two orders.
C14_NoInterferenceButBelongings ==
    BothDone =>
        /\ SameTable
        /\ \A p \in Both :
              /\ WithoutBelongings(result[p]) =
                    WithoutBelongings(SeqResult(p, T0))
              /\ WithoutBelongings(result[p]) =
                    WithoutBelongings(SeqResult(p, SeqTable(Rival(p), T0)))
              /\ result[p] \in {SeqResult(p, T0),
                                SeqResult(p, SeqTable(Rival(p), T0))}

\* An update of the parent and a delete of the child, both invoked on the
\* table of two rows, have both been committed.
C14_Witness ==
    /\ BothDone
    /\ Is("c1", "update_view") /\ Is("c2", "delete_view")
    /\ result["c1"] = Success /\ result["c2"] = Success
    /\ before["c1"] = ParentAndChildTable /\ before["c2"] = ParentAndChildTable
    /\ Len(table) = 1 /\ table[1].name = "Notes v2"

====
